---- MODULE Spec2Model ----
(***************************************************************************)
(* Model of bin/route_xdcdb-fos.py: the one-way reconciliation of the      *)
(* XDCDB "fields of science" table (info_services.fos) into the warehouse  *)
(* model XSEDEFos.  One process invocation performs one pass of            *)
(* HandleLoad.run; the program may be invoked again after it has exited,   *)
(* any number of times, and the source table may be edited in between.     *)
(*                                                                         *)
(* Python values are modelled with their type, because str(dict) renders   *)
(* the repr of every value: None and the string 'None' serialize           *)
(* differently.  A value is [kind, s] where s is the text str() gives.     *)
(* The destination model XSEDEFos is defined outside this repository: the  *)
(* store is taken to return, through model_to_dict, the field values that  *)
(* update_or_create was handed, and to hold the six columns of the source. *)
(* The two loops of Store_Destination visit their ids in any order (the    *)
(* query has no ORDER BY); a rejected write and a signal may come at any   *)
(* iteration.                                                              *)
(***************************************************************************)
EXTENDS Integers, Sequences, FiniteSets, TLC

\* ---------------------------------------------------------------- bounds
NumIds == 2           \* distinct field_of_science_id values in play

Ids == 1..NumIds

\* ---------------------------------------------------------------- values
Digits == <<"1", "2", "3", "4", "5", "6", "7", "8", "9">>

PyNone == [kind |-> "NoneType", s |-> "None"]
PyStr(t) == [kind |-> "str", s |-> t]
PyInt(n) == [kind |-> "int", s |-> Digits[n]]

\* str(v): the text of the value, as a string
Str(v) == [kind |-> "str", s |-> v.s]

\* str.lower() on the texts that occur
Lower(t) ==
    CASE t = "None" -> "none"
      [] t = "NONE" -> "none"
      [] t = "none" -> "none"
      [] t = "Physics" -> "physics"
      [] t = "PHY" -> "phy"
      [] OTHER -> t

\* isinstance(v, str) and v.lower() == 'none'
IsNoneStr(v) == v.kind = "str" /\ Lower(v.s) = "none"

\* the columns of info_services.fos / the fields of XSEDEFos, sorted by name
SortedFields ==
    << "field_of_science_desc", "field_of_science_id", "fos_nsf_abbrev",
       "fos_nsf_id", "is_active", "parent_field_of_science_id" >>

\* ---------------------------------------------------------------- inputs
\* (field_of_science_desc, fos_nsf_abbrev) of the rows in play: an ordinary
\* row, an absent abbreviation, a 'none' string in the column Retrieve_Source
\* normalises, an absent description, and a 'none' string in a column that
\* Retrieve_Source does not normalise
DescAbbrevValues ==
    { <<PyStr("Physics"), PyStr("PHY")>>,
      <<PyStr("Physics"), PyNone>>,
      <<PyStr("Physics"), PyStr("NONE")>>,
      <<PyNone, PyStr("PHY")>>,
      <<PyStr("None"), PyStr("PHY")>> }

Row(k, d, a) ==
    [ field_of_science_id |-> PyInt(k),
      parent_field_of_science_id |-> PyNone,
      field_of_science_desc |-> d,
      fos_nsf_id |-> PyInt(k),
      fos_nsf_abbrev |-> a,
      is_active |-> PyStr("1") ]

RowsOf(k) == { Row(k, da[1], da[2]) : da \in DescAbbrevValues }

\* a table over allrows: a function from a set of ids to the row with that id
Tables(allrows) ==
    UNION { { t \in [S -> allrows] : \A k \in S : t[k].field_of_science_id = PyInt(k) } :
            S \in SUBSET Ids }

SourceTables == Tables(UNION { RowsOf(k) : k \in Ids })

EmptyTable == [k \in {} |-> PyNone]

\* ------------------------------------------------------- pure functions
\* Retrieve_Source, rows to DATA: only fos_nsf_abbrev is normalised
RetrieveRows(table) ==
    [ k \in DOMAIN table |->
        IF IsNoneStr(table[k].fos_nsf_abbrev)
        THEN [table[k] EXCEPT !.fos_nsf_abbrev = PyNone]
        ELSE table[k] ]

\* the columns in the order SELECT * returns them
TableColumns ==
    << "field_of_science_id", "parent_field_of_science_id", "field_of_science_desc",
       "fos_nsf_id", "fos_nsf_abbrev", "is_active" >>

\* the fields of XSEDEFos in the order model_to_dict lists them
ModelFields == TableColumns

\* column orders cursor.description can report: the table's, its reverse,
\* the sorted one and a rotation
ColumnOrders ==
    { TableColumns,
      [ i \in 1..Len(TableColumns) |-> TableColumns[Len(TableColumns) + 1 - i] ],
      SortedFields,
      [ i \in 1..Len(TableColumns) |-> TableColumns[(i % Len(TableColumns)) + 1] ] }

\* d.items() of a dict whose keys were inserted in the order cols
Items(d, cols) == [ i \in 1..Len(cols) |-> <<cols[i], d[cols[i]]>> ]

\* the place of a field name in the order of str
FieldRank ==
    [ f \in { SortedFields[i] : i \in 1..Len(SortedFields) } |->
        CHOOSE i \in 1..Len(SortedFields) : SortedFields[i] = f ]

\* (k1, v1) < (k2, v2): the keys of one dict differ, the first components decide
ItemLess(a, b) == FieldRank[a[1]] < FieldRank[b[1]]

\* variant: the items are taken in the order of the dict
UnsortedItems(items) == items

\* sorted(d.items())
SortedItems(items) == SortSeq(items, ItemLess)

\* str() of {k:v for k,v in items}: name and repr of every pair, in that order
StrDict(items) == [ i \in 1..Len(items) |-> <<items[i][1], items[i][2].kind, items[i][2].s>> ]

\* hashlib.md5(..).digest(): taken to be collision free
Md5(strdict) == <<"md5", strdict>>

\* curdigest.get(new_id, ''): the default is a str, never equal to a digest
NoDigest == <<>>

\* the loop over xdict: every field that is a 'none' string becomes None
NormalizeXdict(xdict) ==
    [ f \in DOMAIN xdict |-> IF IsNoneStr(xdict[f]) THEN PyNone ELSE xdict[f] ]

\* digest of a destination item (model_to_dict, normalise, sort, hash)
CurDigest(item) == Md5(StrDict(SortedItems(Items(NormalizeXdict(item), ModelFields))))

\* digest of a source item whose dict has the columns in the order cols
NewDigestIn(nitem, cols) == Md5(StrDict(SortedItems(Items(nitem, cols))))

\* the record update_or_create writes for nitem
UpsertRecord(nitem) ==
    [ field_of_science_id |-> nitem.field_of_science_id,
      parent_field_of_science_id |-> nitem.parent_field_of_science_id,
      field_of_science_desc |-> Str(nitem.field_of_science_desc),
      fos_nsf_id |-> nitem.fos_nsf_id,
      fos_nsf_abbrev |-> Str(nitem.fos_nsf_abbrev),
      is_active |-> Str(nitem.is_active) ]

\* destination rows: what earlier runs of this program can have written
DestRowsOf(k) == { UpsertRecord(RetrieveRows([j \in {k} |-> r])[k]) : r \in RowsOf(k) }

DestTables == Tables(UNION { DestRowsOf(k) : k \in Ids })

Put(table, k, rec) == [ j \in DOMAIN table \cup {k} |-> IF j = k THEN rec ELSE table[j] ]

Remove(table, k) == [ j \in DOMAIN table \ {k} |-> table[j] ]

\* ----------------------------------------------------------------- state
VARIABLES
    COLS,         \* the column names of cursor.description, in its order
    source,       \* rows of info_services.fos, by field_of_science_id
    dest,         \* XSEDEFos objects in the warehouse, by field_of_science_id
    pc,           \* position of the process in run()
    cursorOpen,   \* the cursor of Connect_Source is open
    INPUT,        \* DATA returned by Retrieve_Source
    cur,          \* self.cur
    curdigest,    \* self.curdigest
    newTodo,      \* ids the loop over new_items has not reached yet
    curTodo,      \* ids the loop over self.cur has not reached yet
    stat,         \* MyUpdateStat, MyDeleteStat, MySkipStat
    result,       \* what Store_Destination returned: returned, rc, warehouse_msg
    pa,           \* calls of pa.FinishActivity and the flag of the last one
    exitStatus,   \* exit status of the process, -1 while it runs
    hist,         \* what happened in this run (observation only)
    prev           \* the previous run: whether it converged and on what source

vars == << COLS, source, dest, pc, cursorOpen, INPUT, cur, curdigest,
           newTodo, curTodo, stat, result, pa, exitStatus, hist, prev >>

\* digest of a source item (dict(zip(COLS, row)), sort, hash)
NewDigest(nitem) == NewDigestIn(nitem, COLS)

NoStat == [MyUpdateStat |-> 0, MyDeleteStat |-> 0, MySkipStat |-> 0]

NoResult == [returned |-> FALSE, rc |-> FALSE, warehouse_msg |-> ""]

NoPa == [calls |-> 0, rc |-> FALSE]

NoHist ==
    [ destAtStart |-> EmptyTable, read |-> FALSE, readSource |-> EmptyTable,
      upserted |-> {}, deleted |-> {}, upsertFailed |-> {}, deleteFailed |-> {},
      sourceFailed |-> FALSE, cancelled |-> FALSE, configFailed |-> FALSE,
      reordered |-> FALSE ]

NoPrev == [ran |-> FALSE, ok |-> FALSE, source |-> EmptyTable]

Init ==
    /\ COLS = TableColumns
    /\ source \in SourceTables
    /\ dest \in DestTables
    /\ pc = "start"
    /\ cursorOpen = FALSE
    /\ INPUT = EmptyTable
    /\ cur = EmptyTable
    /\ curdigest = EmptyTable
    /\ newTodo = {}
    /\ curTodo = {}
    /\ stat = NoStat
    /\ result = NoResult
    /\ pa = NoPa
    /\ exitStatus = -1
    /\ hist = NoHist
    /\ prev = NoPrev

\* --------------------------------------------------------------- actions
\* __init__: the arguments are parsed, the configuration file is read and
\* parsed, the logger is set up, source and destination pass their checks
LoadConfig ==
    /\ pc = "start"
    /\ pc' = "run"
    /\ UNCHANGED << COLS, source, dest, cursorOpen, INPUT, cur, curdigest, newTodo,
                    curTodo, stat, result, pa, exitStatus, hist, prev >>

\* __init__: open() raises IOError, it is re-raised and nothing catches it
ConfigUnreadable ==
    /\ pc = "start"
    /\ pc' = "exited"
    /\ exitStatus' = 1
    /\ hist' = [hist EXCEPT !.configFailed = TRUE]
    /\ UNCHANGED << COLS, source, dest, cursorOpen, INPUT, cur, curdigest,
                    newTodo, curTodo, stat, result, pa, prev >>

\* variant: the parse error is printed and the process ends with sys.exit(0)
ConfigUnparsableExitsZero ==
    /\ pc = "start"
    /\ pc' = "exited"
    /\ exitStatus' = 0
    /\ hist' = [hist EXCEPT !.configFailed = TRUE]
    /\ UNCHANGED << COLS, source, dest, cursorOpen, INPUT, cur, curdigest,
                    newTodo, curTodo, stat, result, pa, prev >>

\* __init__: json.loads raises ValueError: eprint, sys.exit(1)
ConfigUnparsable ==
    /\ pc = "start"
    /\ pc' = "exited"
    /\ exitStatus' = 1
    /\ hist' = [hist EXCEPT !.configFailed = TRUE]
    /\ UNCHANGED << COLS, source, dest, cursorOpen, INPUT, cur, curdigest,
                    newTodo, curTodo, stat, result, pa, prev >>

\* __init__ and run(): the source or the destination the configuration names
\* fails a check: the error is logged or printed, sys.exit(1)
ConfigRejected ==
    /\ pc \in {"start", "run"}
    /\ pc' = "exited"
    /\ exitStatus' = 1
    /\ hist' = [hist EXCEPT !.configFailed = TRUE]
    /\ UNCHANGED << COLS, source, dest, cursorOpen, INPUT, cur, curdigest,
                    newTodo, curTodo, stat, result, pa, prev >>

\* run(): the handlers are installed, the tracker is created, the counters reset
RunStart ==
    /\ pc = "run"
    /\ pc' = "connect"
    /\ stat' = NoStat
    /\ hist' = [hist EXCEPT !.destAtStart = dest]
    /\ UNCHANGED << COLS, source, dest, cursorOpen, INPUT, cur, curdigest,
                    newTodo, curTodo, result, pa, exitStatus, prev >>

\* Connect_Source: psycopg2.connect and conn.cursor succeed
Connect_Source ==
    /\ pc = "connect"
    /\ cursorOpen' = TRUE
    /\ pc' = "retrieve"
    /\ UNCHANGED << COLS, source, dest, INPUT, cur, curdigest, newTodo,
                    curTodo, stat, result, pa, exitStatus, hist, prev >>

\* Connect_Source: psycopg2.connect raises; nothing catches it
ConnectFails ==
    /\ pc = "connect"
    /\ pc' = "exited"
    /\ exitStatus' = 1
    /\ hist' = [hist EXCEPT !.sourceFailed = TRUE]
    /\ UNCHANGED << COLS, source, dest, cursorOpen, INPUT, cur, curdigest,
                    newTodo, curTodo, stat, result, pa, prev >>

\* Retrieve_Source: the query succeeds and DATA is returned
Retrieve_Source ==
    /\ pc = "retrieve"
    /\ INPUT' = RetrieveRows(source)
    /\ hist' = [hist EXCEPT !.read = TRUE, !.readSource = source]
    /\ pc' = "load"
    /\ UNCHANGED << COLS, source, dest, cursorOpen, cur, curdigest, newTodo,
                    curTodo, stat, result, pa, exitStatus, prev >>

\* variant: the error is logged and Retrieve_Source returns an empty DATA
RetrieveFailsReturnsEmpty ==
    /\ pc = "retrieve"
    /\ INPUT' = EmptyTable
    /\ pc' = "load"
    /\ hist' = [hist EXCEPT !.sourceFailed = TRUE]
    /\ UNCHANGED << COLS, source, dest, cursorOpen, cur, curdigest, newTodo,
                    curTodo, stat, result, pa, exitStatus, prev >>

\* Retrieve_Source: cursor.execute raises psycopg2.Error: log, exit(1)
RetrieveFails ==
    /\ pc = "retrieve"
    /\ pc' = "exited"
    /\ exitStatus' = 1
    /\ hist' = [hist EXCEPT !.sourceFailed = TRUE]
    /\ UNCHANGED << COLS, source, dest, cursorOpen, INPUT, cur, curdigest,
                    newTodo, curTodo, stat, result, pa, prev >>

\* Store_Destination, first loop: XSEDEFos.objects.all() into cur and curdigest
LoadDestination ==
    /\ pc = "load"
    /\ cur' = dest
    /\ curdigest' = [k \in DOMAIN dest |-> CurDigest(dest[k])]
    /\ newTodo' = DOMAIN INPUT
    /\ pc' = "upsert"
    /\ UNCHANGED << COLS, source, dest, cursorOpen, INPUT, curTodo, stat,
                    result, pa, exitStatus, hist, prev >>

\* variant: the lookup misses every id (the digests are keyed by another value)
CurDigestGetMisses(new_id) == NoDigest

CurDigestGet(new_id) == IF new_id \in DOMAIN curdigest THEN curdigest[new_id] ELSE NoDigest

\* variant: the item is skipped without being counted
SkipItemUncounted(new_id) ==
    /\ pc = "upsert"
    /\ new_id \in newTodo
    /\ NewDigest(INPUT[new_id]) = CurDigestGet(new_id)
    /\ newTodo' = newTodo \ {new_id}
    /\ UNCHANGED << COLS, source, dest, pc, cursorOpen, INPUT, cur, curdigest,
                    curTodo, stat, result, pa, exitStatus, hist, prev >>

\* the digests are equal: the item is skipped
SkipItem(new_id) ==
    /\ pc = "upsert"
    /\ new_id \in newTodo
    /\ NewDigest(INPUT[new_id]) = CurDigestGet(new_id)
    /\ stat' = [stat EXCEPT !.MySkipStat = @ + 1]
    /\ newTodo' = newTodo \ {new_id}
    /\ UNCHANGED << COLS, source, dest, pc, cursorOpen, INPUT, cur, curdigest,
                    curTodo, result, pa, exitStatus, hist, prev >>

\* variant: the item is written whatever the digests are
UpsertItemAlways(new_id) ==
    /\ pc = "upsert"
    /\ new_id \in newTodo
    /\ dest' = Put(dest, new_id, UpsertRecord(INPUT[new_id]))
    /\ stat' = [stat EXCEPT !.MyUpdateStat = @ + 1]
    /\ hist' = [hist EXCEPT !.upserted = @ \cup {new_id}]
    /\ newTodo' = newTodo \ {new_id}
    /\ UNCHANGED << COLS, source, pc, cursorOpen, INPUT, cur, curdigest,
                    curTodo, result, pa, exitStatus, prev >>

\* update_or_create and save succeed
UpsertItem(new_id) ==
    /\ pc = "upsert"
    /\ new_id \in newTodo
    /\ NewDigest(INPUT[new_id]) # CurDigestGet(new_id)
    /\ dest' = Put(dest, new_id, UpsertRecord(INPUT[new_id]))
    /\ stat' = [stat EXCEPT !.MyUpdateStat = @ + 1]
    /\ hist' = [hist EXCEPT !.upserted = @ \cup {new_id}]
    /\ newTodo' = newTodo \ {new_id}
    /\ UNCHANGED << COLS, source, pc, cursorOpen, INPUT, cur, curdigest,
                    curTodo, result, pa, exitStatus, prev >>

\* variant: the rejection is logged and the loop goes on to the next item
UpsertRejectedContinues(new_id) ==
    /\ pc = "upsert"
    /\ new_id \in newTodo
    /\ NewDigest(INPUT[new_id]) # CurDigestGet(new_id)
    /\ hist' = [hist EXCEPT !.upsertFailed = @ \cup {new_id}]
    /\ newTodo' = newTodo \ {new_id}
    /\ UNCHANGED << COLS, source, dest, pc, cursorOpen, INPUT, cur, curdigest,
                    curTodo, stat, result, pa, exitStatus, prev >>

\* update_or_create raises DataError or IntegrityError: return (False, msg)
UpsertRejected(new_id) ==
    /\ pc = "upsert"
    /\ new_id \in newTodo
    /\ NewDigest(INPUT[new_id]) # CurDigestGet(new_id)
    /\ result' = [returned |-> TRUE, rc |-> FALSE, warehouse_msg |-> "Error saving ID"]
    /\ hist' = [hist EXCEPT !.upsertFailed = @ \cup {new_id}]
    /\ pc' = "disconnect"
    /\ UNCHANGED << COLS, source, dest, cursorOpen, INPUT, cur, curdigest,
                    newTodo, curTodo, stat, pa, exitStatus, prev >>

\* variant: the loop over self.cur begins while ids of new_items are left
UpsertLoopEndsEarly ==
    /\ pc = "upsert"
    /\ curTodo' = DOMAIN cur
    /\ pc' = "delete"
    /\ UNCHANGED << COLS, source, dest, cursorOpen, INPUT, cur, curdigest,
                    newTodo, stat, result, pa, exitStatus, hist, prev >>

\* the loop over new_items is over, the loop over self.cur begins
UpsertLoopEnds ==
    /\ pc = "upsert"
    /\ newTodo = {}
    /\ curTodo' = DOMAIN cur
    /\ pc' = "delete"
    /\ UNCHANGED << COLS, source, dest, cursorOpen, INPUT, cur, curdigest,
                    newTodo, stat, result, pa, exitStatus, hist, prev >>

\* variant: the membership test is inverted, an id of new_items is deleted
KeepItemDeletes(cur_id) ==
    /\ pc = "delete"
    /\ cur_id \in curTodo
    /\ cur_id \in DOMAIN INPUT
    /\ dest' = Remove(dest, cur_id)
    /\ stat' = [stat EXCEPT !.MyDeleteStat = @ + 1]
    /\ hist' = [hist EXCEPT !.deleted = @ \cup {cur_id}]
    /\ curTodo' = curTodo \ {cur_id}
    /\ UNCHANGED << COLS, source, pc, cursorOpen, INPUT, cur, curdigest,
                    newTodo, result, pa, exitStatus, prev >>

\* cur_id is in new_items: nothing to do
KeepItem(cur_id) ==
    /\ pc = "delete"
    /\ cur_id \in curTodo
    /\ cur_id \in DOMAIN INPUT
    /\ curTodo' = curTodo \ {cur_id}
    /\ UNCHANGED << COLS, source, dest, pc, cursorOpen, INPUT, cur, curdigest,
                    newTodo, stat, result, pa, exitStatus, hist, prev >>

\* variant: the delete is counted and logged but the record is not removed
DeleteItemCountsOnly(cur_id) ==
    /\ pc = "delete"
    /\ cur_id \in curTodo
    /\ cur_id \notin DOMAIN INPUT
    /\ stat' = [stat EXCEPT !.MyDeleteStat = @ + 1]
    /\ hist' = [hist EXCEPT !.deleted = @ \cup {cur_id}]
    /\ curTodo' = curTodo \ {cur_id}
    /\ UNCHANGED << COLS, source, dest, pc, cursorOpen, INPUT, cur, curdigest,
                    newTodo, result, pa, exitStatus, prev >>

\* cur_id is not in new_items and delete() succeeds
DeleteItem(cur_id) ==
    /\ pc = "delete"
    /\ cur_id \in curTodo
    /\ cur_id \notin DOMAIN INPUT
    /\ dest' = Remove(dest, cur_id)
    /\ stat' = [stat EXCEPT !.MyDeleteStat = @ + 1]
    /\ hist' = [hist EXCEPT !.deleted = @ \cup {cur_id}]
    /\ curTodo' = curTodo \ {cur_id}
    /\ UNCHANGED << COLS, source, pc, cursorOpen, INPUT, cur, curdigest,
                    newTodo, result, pa, exitStatus, prev >>

\* variant: the rejected delete ends Store_Destination with (False, msg)
DeleteRejectedReturns(cur_id) ==
    /\ pc = "delete"
    /\ cur_id \in curTodo
    /\ cur_id \notin DOMAIN INPUT
    /\ result' = [returned |-> TRUE, rc |-> FALSE, warehouse_msg |-> "Error deleting ID"]
    /\ hist' = [hist EXCEPT !.deleteFailed = @ \cup {cur_id}]
    /\ pc' = "disconnect"
    /\ UNCHANGED << COLS, source, dest, cursorOpen, INPUT, cur, curdigest,
                    newTodo, curTodo, stat, pa, exitStatus, prev >>

\* cur_id is not in new_items and delete() raises DataError or IntegrityError
DeleteRejected(cur_id) ==
    /\ pc = "delete"
    /\ cur_id \in curTodo
    /\ cur_id \notin DOMAIN INPUT
    /\ hist' = [hist EXCEPT !.deleteFailed = @ \cup {cur_id}]
    /\ curTodo' = curTodo \ {cur_id}
    /\ UNCHANGED << COLS, source, dest, pc, cursorOpen, INPUT, cur, curdigest,
                    newTodo, stat, result, pa, exitStatus, prev >>

\* variant: the return reports the deletes that were rejected
StoreReturnsRejects ==
    /\ pc = "delete"
    /\ curTodo = {}
    /\ result' = IF hist.deleteFailed = {}
                 THEN [returned |-> TRUE, rc |-> TRUE, warehouse_msg |-> ""]
                 ELSE [returned |-> TRUE, rc |-> FALSE, warehouse_msg |-> "Error deleting ID"]
    /\ pc' = "disconnect"
    /\ UNCHANGED << COLS, source, dest, cursorOpen, INPUT, cur, curdigest,
                    newTodo, curTodo, stat, pa, exitStatus, hist, prev >>

\* the loop over self.cur is over: return (True, '')
StoreReturns ==
    /\ pc = "delete"
    /\ curTodo = {}
    /\ result' = [returned |-> TRUE, rc |-> TRUE, warehouse_msg |-> ""]
    /\ pc' = "disconnect"
    /\ UNCHANGED << COLS, source, dest, cursorOpen, INPUT, cur, curdigest,
                    newTodo, curTodo, stat, pa, exitStatus, hist, prev >>

\* Disconnect_Source: cursor.close()
Disconnect_Source ==
    /\ pc = "disconnect"
    /\ cursorOpen' = FALSE
    /\ pc' = "finish"
    /\ UNCHANGED << COLS, source, dest, INPUT, cur, curdigest, newTodo,
                    curTodo, stat, result, pa, exitStatus, hist, prev >>

\* variant: the tracker is given success whatever Store_Destination returned
FinishActivitySuccess ==
    /\ pc = "finish"
    /\ pa' = [calls |-> pa.calls + 1, rc |-> TRUE]
    /\ pc' = "break"
    /\ UNCHANGED << COLS, source, dest, cursorOpen, INPUT, cur, curdigest,
                    newTodo, curTodo, stat, result, exitStatus, hist, prev >>

\* pa.FinishActivity(rc, summary_msg)
FinishActivity ==
    /\ pc = "finish"
    /\ pa' = [calls |-> pa.calls + 1, rc |-> result.rc]
    /\ pc' = "break"
    /\ UNCHANGED << COLS, source, dest, cursorOpen, INPUT, cur, curdigest,
                    newTodo, curTodo, stat, result, exitStatus, hist, prev >>

\* break, run() returns, sys.exit(0)
MainExits ==
    /\ pc = "break"
    /\ exitStatus' = 0
    /\ pc' = "exited"
    /\ UNCHANGED << COLS, source, dest, cursorOpen, INPUT, cur, curdigest,
                    newTodo, curTodo, stat, result, pa, hist, prev >>

Running == pc \in {"connect", "retrieve", "load", "upsert", "delete", "disconnect",
                   "finish", "break"}

\* variant: the handler logs the signal and returns, the run goes on
exit_signal_returns ==
    /\ Running
    /\ hist' = [hist EXCEPT !.cancelled = TRUE]
    /\ UNCHANGED << COLS, source, dest, pc, cursorOpen, INPUT, cur, curdigest,
                    newTodo, curTodo, stat, result, pa, exitStatus, prev >>

\* SIGINT or SIGTERM while run() executes: log, sys.exit(0)
exit_signal ==
    /\ Running
    /\ exitStatus' = 0
    /\ pc' = "exited"
    /\ hist' = [hist EXCEPT !.cancelled = TRUE]
    /\ UNCHANGED << COLS, source, dest, cursorOpen, INPUT, cur, curdigest,
                    newTodo, curTodo, stat, result, pa, prev >>

\* ----------------------------------------------------------- environment
\* the source may be edited while the program does not run; after a run that
\* succeeded with no delete rejected, by one edit at most before the next run
Editable == pc = "start" /\ prev.ran /\ (prev.ok => source = prev.source)

\* one row of the source table is inserted or updated
SourceSetRow(k, row) ==
    /\ Editable
    /\ row \in RowsOf(k)
    /\ k \in DOMAIN source => source[k] # row
    /\ source' = Put(source, k, row)
    /\ UNCHANGED << COLS, dest, pc, cursorOpen, INPUT, cur, curdigest, newTodo,
                    curTodo, stat, result, pa, exitStatus, hist, prev >>

\* one row of the source table is deleted
SourceDeleteRow(k) ==
    /\ Editable
    /\ k \in DOMAIN source
    /\ source' = Remove(source, k)
    /\ UNCHANGED << COLS, dest, pc, cursorOpen, INPUT, cur, curdigest, newTodo,
                    curTodo, stat, result, pa, exitStatus, hist, prev >>

\* the program is invoked again (a new process: nothing of self survives)
Invoke ==
    /\ pc = "exited"
    /\ prev' = IF result.returned /\ result.rc /\ hist.deleteFailed = {}
               THEN [ran |-> TRUE, ok |-> TRUE, source |-> hist.readSource]
               ELSE [ran |-> TRUE, ok |-> FALSE, source |-> EmptyTable]
    /\ pc' = "start"
    /\ cursorOpen' = FALSE
    /\ INPUT' = EmptyTable
    /\ cur' = EmptyTable
    /\ curdigest' = EmptyTable
    /\ newTodo' = {}
    /\ curTodo' = {}
    /\ stat' = NoStat
    /\ result' = NoResult
    /\ pa' = NoPa
    /\ exitStatus' = -1
    /\ hist' = NoHist
    /\ UNCHANGED << COLS, source, dest >>

Next ==
    \/ LoadConfig
    \/ ConfigUnreadable
    \/ ConfigUnparsable
    \/ ConfigRejected
    \/ RunStart
    \/ Connect_Source
    \/ ConnectFails
    \/ Retrieve_Source
    \/ RetrieveFails
    \/ LoadDestination
    \/ \E new_id \in Ids : SkipItem(new_id)
    \/ \E new_id \in Ids : UpsertItem(new_id)
    \/ \E new_id \in Ids : UpsertRejected(new_id)
    \/ UpsertLoopEnds
    \/ \E cur_id \in Ids : KeepItem(cur_id)
    \/ \E cur_id \in Ids : DeleteItem(cur_id)
    \/ \E cur_id \in Ids : DeleteRejected(cur_id)
    \/ StoreReturns
    \/ Disconnect_Source
    \/ FinishActivity
    \/ MainExits
    \/ exit_signal
    \/ \E k \in Ids : \E row \in RowsOf(k) : SourceSetRow(k, row)
    \/ \E k \in Ids : SourceDeleteRow(k)
    \/ Invoke

Spec == Init /\ [][Next]_vars

\* ------------------------------------------------- reordered source columns
\* between two runs the source table comes to list its columns in another
\* order (the query is SELECT *), the rows keep their values
ReorderColumns(cols) ==
    /\ pc = "start"
    /\ prev.ran /\ prev.ok
    /\ ~hist.reordered
    /\ cols \in ColumnOrders \ {COLS}
    /\ COLS' = cols
    /\ hist' = [hist EXCEPT !.reordered = TRUE]
    /\ UNCHANGED << source, dest, pc, cursorOpen, INPUT, cur, curdigest, newTodo,
                    curTodo, stat, result, pa, exitStatus, prev >>

\* the runs in which nothing fails and no signal arrives, on a source whose
\* rows stay and whose column order may change between runs
NextCols ==
    \/ LoadConfig
    \/ RunStart
    \/ Connect_Source
    \/ Retrieve_Source
    \/ LoadDestination
    \/ \E new_id \in Ids : SkipItem(new_id)
    \/ \E new_id \in Ids : UpsertItem(new_id)
    \/ UpsertLoopEnds
    \/ \E cur_id \in Ids : KeepItem(cur_id)
    \/ \E cur_id \in Ids : DeleteItem(cur_id)
    \/ StoreReturns
    \/ Disconnect_Source
    \/ FinishActivity
    \/ MainExits
    \/ Invoke
    \/ \E cols \in ColumnOrders : ReorderColumns(cols)

SpecCols == Init /\ [][NextCols]_vars

TypeOK ==
    /\ source \in SourceTables
    /\ pc \in {"start", "run", "exited"} \cup {"connect", "retrieve", "load", "upsert",
               "delete", "disconnect", "finish", "break"}
    /\ exitStatus \in {-1, 0, 1}

\* ---------------------------------------------------------------- claims
\* Store_Destination has returned (True, '') in the current run
Succeeded == result.returned /\ result.rc

\* the previous run returned (True, '') and none of its deletes was rejected
PrevSucceeded == prev.ran /\ prev.ok

\* every destination record has the digest of the source record with its id
Converged(d, data) ==
    /\ DOMAIN d = DOMAIN data
    /\ \A k \in DOMAIN d : CurDigest(d[k]) = NewDigest(data[k])

\* C1: when the previous run succeeded (and none of its deletes was rejected)
\* and the source is unchanged, a run that succeeds has made no upsert and no
\* delete and has skipped as many records as the destination holds.
C1_Idempotent ==
    (PrevSucceeded /\ hist.readSource = prev.source /\ Succeeded) =>
        /\ stat.MyUpdateStat = 0
        /\ stat.MyDeleteStat = 0
        /\ stat.MySkipStat = Cardinality(DOMAIN dest)

\* C2 as stated: after a run that returned success the ids of the destination
\* are the ids of the snapshot the run read.
C2_IdsConverge_Orig == Succeeded => DOMAIN dest = DOMAIN INPUT

\* C2: after a run that returned success the ids of the destination are the
\* ids of the snapshot the run read together with the ids whose delete was
\* rejected in that run.
C2_IdsConverge == Succeeded => DOMAIN dest = DOMAIN INPUT \cup hist.deleteFailed

C2_Witness ==
    /\ Succeeded
    /\ hist.deleteFailed # {}
    /\ hist.upserted # {}
    /\ DOMAIN dest = DOMAIN INPUT \cup hist.deleteFailed

\* C3: after a run that returned success every id of the snapshot has a
\* destination record whose digest, computed as the destination loader does,
\* equals the digest of the source record.
C3_ContentConverges ==
    Succeeded =>
        \A k \in DOMAIN INPUT :
            k \in DOMAIN dest /\ CurDigest(dest[k]) = NewDigest(INPUT[k])

\* C4: a run in which an upsert was rejected has the result (False, msg) with
\* a non-empty msg, and FinishActivity, once called, was given False.
C4_FailureSurfaced ==
    hist.upsertFailed # {} =>
        /\ result.returned
        /\ ~result.rc
        /\ result.warehouse_msg # ""
        /\ pa.calls > 0 => ~pa.rc

C4_Witness == hist.upsertFailed # {} /\ pa.calls = 1 /\ hist.upserted # {}

\* C5: when the source cannot be reached or the query fails, the process has
\* ended with a non-zero status, the destination is as it was when the run
\* began, and no snapshot, partial or not, has reached Store_Destination.
C5_FatalSourceAppliesNothing ==
    hist.sourceFailed =>
        /\ pc = "exited"
        /\ exitStatus \notin {-1, 0}
        /\ dest = hist.destAtStart
        /\ hist.upserted = {} /\ hist.deleted = {}
        /\ ~hist.read /\ ~result.returned /\ pa.calls = 0

C5_Witness ==
    /\ hist.sourceFailed
    /\ cursorOpen
    /\ DOMAIN dest # {}
    /\ DOMAIN dest # DOMAIN source

\* the snapshot the previous run worked on
PrevInput == RetrieveRows(prev.source)

\* the rows of the source whose columns differ from what the previous run read
ChangedRows == { k \in DOMAIN INPUT : prev.source[k] # hist.readSource[k] }

\* the rows of the source whose digest differs from the previous run's
ChangedDigests == { k \in DOMAIN INPUT : NewDigest(PrevInput[k]) # NewDigest(INPUT[k]) }

\* the previous run left the destination converged to its source and the
\* current run, on a source with the same ids, has returned success
AfterConvergedRun ==
    /\ PrevSucceeded
    /\ Succeeded
    /\ DOMAIN prev.source = DOMAIN INPUT
    /\ Converged(hist.destAtStart, PrevInput)

ExactlyOneUpsert(ids) ==
    /\ Cardinality(ids) = 1
    /\ hist.upserted = ids
    /\ stat.MyUpdateStat = 1
    /\ stat.MySkipStat = Cardinality(DOMAIN INPUT) - 1
    /\ stat.MyDeleteStat = 0

\* C6 as stated: after a run that converged the destination, when exactly one
\* source row has a field other than its id changed, the next (successful) run
\* makes exactly one upsert, for that id: updated 1, skipped the rest, deleted 0.
C6_OneUpdate_Orig ==
    (AfterConvergedRun /\ Cardinality(ChangedRows) = 1) => ExactlyOneUpsert(ChangedRows)

\* C6: after a run that converged the destination, when exactly one source row
\* has changed so that its digest (computed after Retrieve_Source has turned a
\* 'none' fos_nsf_abbrev into None) differs, the next successful run makes
\* exactly one upsert, for that id: updated 1, skipped the rest, deleted 0.
C6_OneUpdate ==
    (AfterConvergedRun /\ Cardinality(ChangedDigests) = 1) => ExactlyOneUpsert(ChangedDigests)

C6_Witness ==
    /\ AfterConvergedRun
    /\ Cardinality(ChangedDigests) = 1
    /\ Cardinality(DOMAIN INPUT) = NumIds
    /\ stat.MySkipStat = NumIds - 1

\* the ids that were stored when the run began and are not in its snapshot
Stale == DOMAIN hist.destAtStart \ DOMAIN INPUT

\* C7 as stated: once a run has returned success, every id that was in the
\* destination when it began and is absent from its snapshot is gone.
C7_StaleDeleted_Orig == Succeeded => Stale \cap DOMAIN dest = {}

\* C7: once a run has returned success, every id that was in the destination
\* when it began and is absent from its snapshot is gone unless its delete was
\* rejected; and no step ever stores an id that is absent from the snapshot
\* (and the source) of the run that takes it, so a deleted id stays away until
\* it is added to the source again.
C7_StaleDeleted ==
    /\ [](Succeeded => Stale \cap DOMAIN dest = hist.deleteFailed)
    /\ [][\A k \in DOMAIN dest' \ DOMAIN dest :
              k \in DOMAIN INPUT /\ k \in DOMAIN source]_vars

C7_Witness ==
    /\ Succeeded
    /\ prev.ran
    /\ hist.deleted # {}
    /\ DOMAIN INPUT # {}
    /\ Stale \cap DOMAIN dest = {}

\* C8: a source record is fingerprinted as the same record with every 'none'
\* string replaced by None is: once the snapshot is read, each of its records
\* has the digest of the row with all its 'none' strings made absent.
C8_SentinelEverywhere ==
    hist.read =>
        \A k \in DOMAIN INPUT :
            NewDigest(INPUT[k]) = NewDigest(NormalizeXdict(hist.readSource[k]))

\* C9: a process that has ended after Connect_Source succeeded has closed the
\* source cursor.
C9_SourceReleased == pc = "exited" => ~cursorOpen

\* C10: a run that received a signal has ended; the step that takes the signal
\* and every later step of that invocation leave the destination as it is, and
\* the upserts and deletes made before the signal are still in place.
C10_Cancellation ==
    /\ [](hist.cancelled =>
            /\ pc = "exited"
            /\ \A k \in hist.upserted :
                   k \in DOMAIN dest /\ dest[k] = UpsertRecord(INPUT[k])
            /\ hist.deleted \cap DOMAIN dest = {})
    /\ [][hist'.cancelled => dest' = dest]_vars

C10_Witness ==
    /\ hist.cancelled
    /\ hist.upserted # {}
    /\ newTodo # {}
    /\ DOMAIN dest # DOMAIN INPUT

\* C11: a rejected delete does not stop the run: the step that meets it stays
\* in the delete loop with nothing returned; when Store_Destination returns
\* after a rejected delete it returns success and every stale id was either
\* deleted or rejected; the deleted counter counts exactly the records that
\* are gone from the destination.
C11_DeleteBestEffort ==
    /\ [](stat.MyDeleteStat = Cardinality(DOMAIN hist.destAtStart \ DOMAIN dest))
    /\ []((result.returned /\ hist.deleteFailed # {}) =>
            /\ result.rc
            /\ hist.deleted \cup hist.deleteFailed = Stale
            /\ hist.deleted = Stale \ DOMAIN dest
            /\ stat.MyDeleteStat = Cardinality(Stale) - Cardinality(hist.deleteFailed))
    /\ [][hist'.deleteFailed \notin {hist.deleteFailed, {}} =>
            pc' = "delete" /\ ~result'.returned /\ stat' = stat /\ dest' = dest]_vars

\* a run that returned success after one stale id was deleted and another rejected
C11_Witness ==
    /\ Succeeded
    /\ hist.deleteFailed # {}
    /\ hist.deleted # {}
    /\ pa.calls = 1 /\ pa.rc

\* the ids whose upsert or delete the destination rejected in this run
RejectedWrites == hist.upsertFailed \cup hist.deleteFailed

\* C12 as stated: whenever a single upsert or delete was rejected,
\* Store_Destination returns a pair that records the failure (flag False and
\* a message), and the rejection never ends the process as an uncaught error.
C12_FailureRecorded_Orig ==
    /\ (RejectedWrites # {} /\ result.returned) =>
            ~result.rc /\ result.warehouse_msg # ""
    /\ RejectedWrites # {} => exitStatus # 1
    /\ (RejectedWrites # {} /\ pc = "exited" /\ ~hist.cancelled) => result.returned

\* C12, amended: a rejected upsert or delete never ends the process as an
\* uncaught error, and Store_Destination returns its pair unless a signal
\* ends the process first; a rejected upsert is recorded in the pair (False
\* and a message); a rejected delete is only logged, the pair returned after
\* it is (True, '').
C12_FailureContained ==
    /\ hist.upsertFailed # {} =>
            result.returned /\ ~result.rc /\ result.warehouse_msg # ""
    /\ (hist.deleteFailed # {} /\ result.returned) =>
            result.rc /\ result.warehouse_msg = ""
    /\ RejectedWrites # {} => exitStatus # 1
    /\ (RejectedWrites # {} /\ pc = "exited" /\ ~hist.cancelled) => result.returned

\* a process that ended normally after a delete was rejected
C12_Witness ==
    /\ hist.deleteFailed # {}
    /\ result.returned
    /\ pc = "exited" /\ exitStatus = 0 /\ ~hist.cancelled

\* the run got through run() to the break and the final sys.exit
CompletedNormally == pa.calls = 1 /\ ~hist.cancelled

\* C13: the exit status is set exactly when the process has ended; it is 0
\* when the run completed normally, whatever was skipped, upserted or
\* rejected; it is non-zero when the source could not be connected to or read
\* and when the configuration could not be read, parsed or accepted; no such
\* failure ends with status 0.
C13_ExitStatus ==
    /\ pc = "exited" <=> exitStatus # -1
    /\ pc = "exited" =>
        /\ CompletedNormally => exitStatus = 0
        /\ hist.sourceFailed => exitStatus = 1
        /\ hist.configFailed => exitStatus = 1
        /\ exitStatus = 0 => ~hist.sourceFailed /\ ~hist.configFailed

\* a process that ended on a configuration error after an earlier process ran
C13_Witness ==
    /\ pc = "exited"
    /\ hist.configFailed
    /\ exitStatus = 1
    /\ prev.ran

\* the ids whose delete this run has attempted
DeleteAttempts == hist.deleted \cup hist.deleteFailed

\* C14: a step that deletes a destination record, or attempts to, is taken
\* only when every id of the source snapshot has had its upsert-or-skip
\* decision: no source id is left to process and updated + skipped equals
\* the size of the snapshot; and that stays so once a delete was attempted.
C14_UpsertsBeforeDeletes ==
    /\ [](DeleteAttempts # {} =>
            /\ newTodo = {}
            /\ stat.MyUpdateStat + stat.MySkipStat = Cardinality(DOMAIN INPUT))
    /\ [][(DOMAIN dest \ DOMAIN dest' # {} \/ DeleteAttempts' \ DeleteAttempts # {}) =>
            /\ pc = "delete"
            /\ newTodo = {}
            /\ stat.MyUpdateStat + stat.MySkipStat = Cardinality(DOMAIN INPUT)
            /\ hist.upsertFailed = {}]_vars

\* a run that upserted one id and then deleted another
C14_Witness ==
    /\ hist.deleted # {}
    /\ hist.upserted # {}
    /\ DOMAIN dest = DOMAIN INPUT

\* the ids of the snapshot whose destination record, as it was when the run
\* started, has the fingerprint of the source record
SameAtStart ==
    { k \in DOMAIN INPUT \cap DOMAIN hist.destAtStart :
        CurDigest(hist.destAtStart[k]) = NewDigest(INPUT[k]) }

\* C15: a step that writes to the destination, or is refused a write, leaves
\* every record of the snapshot alone whose fingerprint equalled, when the
\* run started, that of its source record: the record is neither upserted nor
\* rejected and stays as it was; and a run that returns success has counted
\* exactly those records as skipped.
C15_MinimalWrite ==
    /\ [](Succeeded => stat.MySkipStat = Cardinality(SameAtStart))
    /\ [][(dest' # dest \/ hist'.upsertFailed # hist.upsertFailed) =>
            LET same == SameAtStart
            IN  /\ (hist'.upserted \cup hist'.upsertFailed) \cap same = {}
                /\ \A k \in same : k \in DOMAIN dest' /\ dest'[k] = hist.destAtStart[k]]_vars

\* a successful run that skipped one record and upserted another
C15_Witness ==
    /\ Succeeded
    /\ stat.MySkipStat = 1
    /\ stat.MyUpdateStat = 1
    /\ hist.upserted \subseteq DOMAIN hist.destAtStart

\* the counters of a run that reports success: every id of the snapshot is
\* counted as updated or as skipped, every stale id whose delete was not
\* rejected is counted as deleted
CountersAddUp ==
    Succeeded =>
        /\ stat.MyUpdateStat + stat.MySkipStat = Cardinality(DOMAIN INPUT)
        /\ stat.MyDeleteStat = Cardinality(Stale) - Cardinality(hist.deleteFailed)

\* a successful run against a destination that was empty when it started
EmptyDestinationCounts ==
    (Succeeded /\ hist.destAtStart = EmptyTable) =>
        /\ stat.MyUpdateStat = Cardinality(DOMAIN INPUT)
        /\ stat.MyDeleteStat = 0
        /\ stat.MySkipStat = 0

\* the ids removed from the source since the previous run
RemovedIds == DOMAIN prev.source \ DOMAIN INPUT

\* the previous run converged the destination, ids were then removed from
\* the source and nothing else was changed, and this run reports success
RemovedAfterConvergedRun ==
    /\ PrevSucceeded
    /\ Succeeded
    /\ Converged(hist.destAtStart, PrevInput)
    /\ RemovedIds # {}
    /\ \A k \in DOMAIN INPUT : k \in DOMAIN prev.source /\ hist.readSource[k] = prev.source[k]

\* C16 as stated: in a run that reports success updated + skipped is the size
\* of the snapshot and deleted is the number of stale ids minus the rejected
\* deletes; against an empty destination updated is the size of the snapshot
\* and the other counters are 0; after k ids were removed from a converged
\* source updated is 0, deleted is k and skipped is the number of records left.
C16_Counters_Orig ==
    /\ CountersAddUp
    /\ EmptyDestinationCounts
    /\ RemovedAfterConvergedRun =>
        /\ stat.MyUpdateStat = 0
        /\ stat.MyDeleteStat = Cardinality(RemovedIds)
        /\ stat.MySkipStat = Cardinality(DOMAIN INPUT)

\* C16, amended: as stated, but after k ids were removed from a converged
\* source deleted is k minus the number of deletes that were rejected.
C16_Counters ==
    /\ CountersAddUp
    /\ EmptyDestinationCounts
    /\ RemovedAfterConvergedRun =>
        /\ stat.MyUpdateStat = 0
        /\ stat.MyDeleteStat = Cardinality(RemovedIds) - Cardinality(hist.deleteFailed)
        /\ stat.MySkipStat = Cardinality(DOMAIN INPUT)

\* one of two ids was removed from a converged source and the run deleted it
C16_Witness ==
    /\ RemovedAfterConvergedRun
    /\ stat = [MyUpdateStat |-> 0, MyDeleteStat |-> 1, MySkipStat |-> 1]

\* C17: once an upsert was rejected the run is out of both loops: no step of
\* the run changes the destination or a counter any more, no delete was or is
\* attempted, the records upserted before the rejection are in the
\* destination as written, and every stale id is still there, unchanged.
C17_FailFast ==
    /\ [](hist.upsertFailed # {} =>
            /\ pc \in {"disconnect", "finish", "break", "exited"}
            /\ Cardinality(hist.upsertFailed) = 1
            /\ hist.upsertFailed \cap hist.upserted = {}
            /\ DeleteAttempts = {}
            /\ stat.MyDeleteStat = 0
            /\ \A k \in hist.upserted :
                    k \in DOMAIN dest /\ dest[k] = UpsertRecord(INPUT[k])
            /\ \A k \in Stale :
                    k \in DOMAIN dest /\ dest[k] = hist.destAtStart[k])
    /\ [][hist.upsertFailed # {} =>
            /\ dest' = dest
            /\ stat' = stat \/ pc' = "start"]_vars

\* a run ended after a rejected upsert with a stale id left in the destination
C17_Witness ==
    /\ hist.upsertFailed # {}
    /\ Stale # {}
    /\ pc = "exited"
    /\ pa.calls = 1

\* FinishActivity is called at most once in a run, and only after
\* Store_Destination has returned and the cursor was closed, with the flag
\* Store_Destination returned
TrackedOnceWithFlag ==
    /\ [](pa.calls <= 1)
    /\ [](pa.calls = 1 => result.returned /\ ~cursorOpen /\ pa.rc = result.rc)
    /\ [][(pa' # pa /\ pa'.calls > 0) =>
            /\ pc = "finish"
            /\ result.returned
            /\ ~cursorOpen
            /\ pa'.rc = result.rc]_vars

\* C18 as stated: every run in which Store_Destination returned has called
\* FinishActivity exactly once by the time the process has ended, after the
\* disconnect and with the returned flag.
C18_RunTracked_Orig ==
    /\ TrackedOnceWithFlag
    /\ []((pc = "exited" /\ result.returned) => pa.calls = 1)

\* C18, amended: every run in which Store_Destination returned and that no
\* signal ended has called FinishActivity exactly once by the time the
\* process has ended; no run calls it more than once, and a call comes after
\* the disconnect and carries the returned flag, never success for a False.
C18_RunTracked ==
    /\ TrackedOnceWithFlag
    /\ []((pc = "exited" /\ result.returned /\ ~hist.cancelled) => pa.calls = 1)

\* a process that ended after the tracker was given the False of a rejected upsert
C18_Witness ==
    /\ pc = "exited"
    /\ result.returned /\ ~result.rc
    /\ pa = [calls |-> 1, rc |-> FALSE]
    /\ ~cursorOpen

\* C19: the fingerprint of a source record is the same in whatever order its
\* dict lists the columns; and in a run that follows a change of the column
\* order no id is upserted whose record has, in some column order, the
\* fingerprint the destination record had when the run started.
C19_FieldOrder ==
    /\ \A k \in DOMAIN INPUT : \A cols \in ColumnOrders :
            NewDigestIn(INPUT[k], cols) = NewDigest(INPUT[k])
    /\ hist.reordered =>
            \A k \in hist.upserted \cap DOMAIN hist.destAtStart : \A cols \in ColumnOrders :
                CurDigest(hist.destAtStart[k]) # NewDigestIn(INPUT[k], cols)

\* after the columns were reordered a successful run skipped every record
C19_Witness ==
    /\ hist.reordered
    /\ COLS # TableColumns
    /\ Succeeded
    /\ DOMAIN INPUT # {}
    /\ stat.MySkipStat = Cardinality(DOMAIN INPUT)
    /\ stat.MyUpdateStat = 0

====
